---- MODULE Spec2Model ----
(***************************************************************************)
(* A state-machine model of app.py, the recipe manager: the recipes table  *)
(* of recipe_manager.db, the routes /save_recipe, /delete_recipe,          *)
(* /get_recipes and /calculate_conversion, and the helper                  *)
(* normalize_percent_value.                                                *)
(*                                                                         *)
(* Conventions.                                                            *)
(*  - Text is ASCII here.  A Chinese character of the source is written as *)
(*    its pinyin syllable: an ingredient name is the sequence of its       *)
(*    characters (<<"gao","jin","mian","fen">> is U+9AD8 U+7B4B U+9EB5     *)
(*    U+7C89), a group label or a yes/no marker is one string              *)
(*    ("ZhuMianTuan" is U+4E3B U+9EB5 U+5718, "shi" is U+662F).            *)
(*  - A Python/JSON value is a record tagged by its type in field t:       *)
(*    "null", "num", "str", "bool", "list", "dict"; NaN is "nan".          *)
(*  - A float is an exact decimal here: what float() returns and a        *)
(*    percentage count units of 1/Unit, a weight counts tenths of a gram.  *)
(***************************************************************************)
EXTENDS Integers, Sequences, FiniteSets, TLC

VARIABLES
    recipes,          \* rows of table recipes, committed, in id order
    sqlite_sequence,  \* the AUTOINCREMENT counter of table recipes
    clock,            \* datetime.now(), as a tick counter
    request,          \* the last call: its route (or function) and its data
    response          \* what that call returned, or that it raised

vars == <<recipes, sqlite_sequence, clock, request, response>>

(***************************************************************************)
(* Bounds.                                                                 *)
(***************************************************************************)
MaxStrLen == 3     \* longest percent string tried
MaxSaves == 3      \* /save_recipe calls that read the clock

(***************************************************************************)
(* Python values.                                                          *)
(***************************************************************************)
Unit == 100 * 100

None == [t |-> "null"]
NaN == [t |-> "nan"]
Num(v) == [t |-> "num", v |-> v]
Str(s) == [t |-> "str", s |-> s]
Bool(b) == [t |-> "bool", b |-> b]
PyList == [t |-> "list"]
PyDict == [t |-> "dict"]

Returned(x) == [kind |-> "return", value |-> x]
Raised(e) == [kind |-> "raise", exc |-> e]

(***************************************************************************)
(* float(str): optional white space, an optional sign, digits with an      *)
(* optional fraction, optional white space.  The alphabet of the model has *)
(* no exponent, "inf", "nan" or "_", so these forms do not occur.          *)
(***************************************************************************)
Digits == {"0", "1", "5"}
DigitVal(c) == CASE c = "0" -> 0 [] c = "1" -> 1 [] c = "5" -> 5

RECURSIVE LStrip(_)
LStrip(s) == IF s # <<>> /\ Head(s) = " " THEN LStrip(Tail(s)) ELSE s

RECURSIVE RStrip(_)
RStrip(s) ==
    IF s # <<>> /\ s[Len(s)] = " " THEN RStrip(SubSeq(s, 1, Len(s) - 1)) ELSE s

strip(s) == RStrip(LStrip(s))

RECURSIVE replace(_, _)
replace(s, c) ==
    IF s = <<>> THEN <<>>
    ELSE IF Head(s) = c THEN replace(Tail(s), c)
    ELSE <<Head(s)>> \o replace(Tail(s), c)

endswith(s, c) == s # <<>> /\ s[Len(s)] = c

AllDigits(s) == \A i \in 1..Len(s) : s[i] \in Digits

RECURSIVE IntValue(_)
IntValue(s) ==
    IF s = <<>> THEN 0
    ELSE 10 * IntValue(SubSeq(s, 1, Len(s) - 1)) + DigitVal(s[Len(s)])

RECURSIVE Pow10(_)
Pow10(n) == IF n = 0 THEN 1 ELSE 10 * Pow10(n - 1)

\* The digits after the point, in units of 1/Unit.
FracValue(s) == (IntValue(s) * Unit) \div Pow10(Len(s))

DotAt(s) == {i \in 1..Len(s) : s[i] = "."}

Unsigned(s) ==
    IF DotAt(s) = {} THEN
        IF s # <<>> /\ AllDigits(s) THEN Returned(IntValue(s) * Unit)
        ELSE Raised("ValueError")
    ELSE
        LET d == CHOOSE i \in DotAt(s) : \A j \in DotAt(s) : i <= j
            ip == SubSeq(s, 1, d - 1)
            fp == SubSeq(s, d + 1, Len(s))
        IN  IF AllDigits(ip) /\ AllDigits(fp) /\ Len(ip) + Len(fp) > 0
            THEN Returned(IntValue(ip) * Unit + FracValue(fp))
            ELSE Raised("ValueError")

float_str(s) ==
    LET b == strip(s) IN
    IF b # <<>> /\ Head(b) = "-" THEN
        LET u == Unsigned(Tail(b)) IN
        IF u.kind = "return" THEN Returned(0 - u.value) ELSE u
    ELSE IF b # <<>> /\ Head(b) = "+" THEN Unsigned(Tail(b))
    ELSE Unsigned(b)

\* float(x) of any value: a number, or the exception it raises.
float(x) ==
    CASE x.t = "num" -> Returned(x.v)
      [] x.t = "bool" -> Returned(IF x.b THEN Unit ELSE 0)
      [] x.t = "str" -> float_str(x.s)
      [] OTHER -> Raised("TypeError")

(***************************************************************************)
(* normalize_percent_value                                                 *)
(***************************************************************************)
\* "return n / 100 if n > 1 else n", with n >= 1 in place of n > 1.
PercentOrFractionGE(n) == IF n >= Unit THEN n \div 100 ELSE n

\* return n / 100 if n > 1 else n
PercentOrFraction(n) == IF n > Unit THEN n \div 100 ELSE n

\* The body of the try block: what it returns, or the exception it raises.
NormalizeTry(p) ==
    IF p.t = "str" /\ endswith(p.s, "%") THEN
        LET n == float_str(replace(strip(p.s), "%")) IN
        IF n.kind = "return" THEN Returned(Num(n.value \div 100)) ELSE n
    ELSE
        LET n == float(p) IN
        IF n.kind = "return" THEN Returned(Num(PercentOrFraction(n.value))) ELSE n

\* except ValueError: return None.  Any other exception propagates.
CatchValueError(r) ==
    IF r.kind = "raise" /\ r.exc = "ValueError" THEN Returned(None) ELSE r

normalize_percent_value(p) ==
    IF p = None \/ p = Str(<<>>) THEN Returned(None)
    ELSE CatchValueError(NormalizeTry(p))

(***************************************************************************)
(* Table recipes and the sqlite3 transaction of one request.               *)
(***************************************************************************)
Row(id, title, ing, percent_norm, steps, timestamp, baking_info) ==
    [id |-> id,
     RecipeName |-> title,
     IngredientGroup |-> ing.group,
     IngredientName |-> ing.name,
     Weight_g |-> ing.weight,
     Percentage |-> percent_norm,
     Description |-> ing.desc,
     Steps |-> steps,
     Timestamp |-> timestamp,
     UpperTemp |-> baking_info.topHeat,
     LowerTemp |-> baking_info.bottomHeat,
     BakeTime |-> baking_info.time,
     Convection |-> IF baking_info.convection THEN "shi" ELSE "fou",
     Steam |-> IF baking_info.steam THEN "shi" ELSE "fou"]

\* A transaction: the rows and the counter as the connection sees them, and
\* the exception that ended it ("" while none has).
Begin == [rows |-> recipes, seq |-> sqlite_sequence, exc |-> ""]

\* DELETE FROM recipes WHERE RecipeName = ?
DeleteWhere(tx, title) ==
    [tx EXCEPT !.rows = SelectSeq(tx.rows, LAMBDA r : r.RecipeName # title)]

\* One turn of the loop of save_recipe_route: normalize the percent, build
\* the parameter tuple, INSERT.  IngredientName is NOT NULL.
InsertIngredient(tx, title, ing, steps, timestamp, baking_info) ==
    LET percent_norm == normalize_percent_value(ing.percent) IN
    IF percent_norm.kind = "raise" THEN [tx EXCEPT !.exc = percent_norm.exc]
    ELSE IF baking_info = None THEN [tx EXCEPT !.exc = "AttributeError"]
    ELSE IF ing.name = None THEN [tx EXCEPT !.exc = "IntegrityError"]
    ELSE [tx EXCEPT
            !.rows = Append(tx.rows,
                            Row(tx.seq + 1, title, ing, percent_norm.value,
                                steps, timestamp, baking_info)),
            !.seq = tx.seq + 1]

RECURSIVE InsertAll(_, _, _, _, _, _)
InsertAll(tx, title, ingredients, steps, timestamp, baking_info) ==
    IF ingredients = <<>> \/ tx.exc # "" THEN tx
    ELSE InsertAll(InsertIngredient(tx, title, Head(ingredients), steps,
                                    timestamp, baking_info),
                   title, Tail(ingredients), steps, timestamp, baking_info)

\* db.rollback() that keeps what the transaction wrote.
RollbackKeepsWrites(tx) ==
    [rows |-> tx.rows, seq |-> tx.seq]

\* db.rollback(): back to what was committed.
Rollback(tx) ==
    [rows |-> recipes, seq |-> sqlite_sequence]

\* db.commit()
Commit(tx) ==
    [rows |-> tx.rows, seq |-> tx.seq]

(***************************************************************************)
(* /save_recipe                                                            *)
(***************************************************************************)
Json(code, body) == [kind |-> "return", code |-> code, body |-> body]

save_recipe_route(data) ==
    /\ request' = [route |-> "save_recipe", data |-> data]
    /\ IF data.title = "" \/ data.ingredients = <<>> THEN
           /\ response' = Json(400, [status |-> "error"])
           /\ UNCHANGED <<recipes, sqlite_sequence, clock>>
       ELSE
           /\ clock < MaxSaves
           /\ clock' = clock + 1
           /\ LET timestamp == clock
                  tx0 == IF data.isUpdate THEN DeleteWhere(Begin, data.title)
                         ELSE Begin
                  tx == InsertAll(tx0, data.title, data.ingredients, data.steps,
                                  timestamp, data.bakingInfo)
                  db == IF tx.exc = "" THEN Commit(tx) ELSE Rollback(tx)
              IN  /\ recipes' = db.rows
                  /\ sqlite_sequence' = db.seq
                  /\ response' =
                        IF tx.exc = "" THEN
                            Json(200, [status |-> "success", title |-> data.title,
                                       isUpdate |-> data.isUpdate])
                        ELSE Json(500, [status |-> "error", exc |-> tx.exc])

(***************************************************************************)
(* /delete_recipe                                                          *)
(***************************************************************************)
delete_recipe_route(data) ==
    /\ request' = [route |-> "delete_recipe", data |-> data]
    /\ IF data.recipeName = "" THEN
           /\ response' = Json(400, [status |-> "error"])
           /\ UNCHANGED <<recipes, sqlite_sequence, clock>>
       ELSE
           LET tx == DeleteWhere(Begin, data.recipeName)
               db == Commit(tx)
           IN  /\ recipes' = db.rows
               /\ sqlite_sequence' = db.seq
               /\ response' =
                     Json(200, [status |-> "success", title |-> data.recipeName,
                                deleted_rows |-> Len(recipes) - Len(tx.rows)])
               /\ UNCHANGED clock

(***************************************************************************)
(* get_all_recipes_data                                                    *)
(***************************************************************************)
\* The collation of the titles of the model.
TitleOrder == <<"A", "B">>
TitleRank(title) == CHOOSE i \in 1..Len(TitleOrder) : TitleOrder[i] = title

\* ORDER BY RecipeName, id
RowBefore(r, q) ==
    \/ TitleRank(r.RecipeName) < TitleRank(q.RecipeName)
    \/ r.RecipeName = q.RecipeName /\ r.id < q.id

RECURSIVE InsertSorted(_, _)
InsertSorted(sorted, r) ==
    IF sorted = <<>> THEN <<r>>
    ELSE IF RowBefore(r, Head(sorted)) THEN <<r>> \o sorted
    ELSE <<Head(sorted)>> \o InsertSorted(Tail(sorted), r)

RECURSIVE OrderBy(_)
OrderBy(rows) ==
    IF rows = <<>> THEN <<>>
    ELSE InsertSorted(OrderBy(Tail(rows)), Head(rows))

\* pandas gives a REAL column that holds a number dtype float64, where NULL
\* reads as NaN; a column of NULLs only stays dtype object, where NULL
\* reads as None.
ReadReal(rows, x) ==
    IF x = None /\ \E i \in 1..Len(rows) : rows[i].Weight_g # None
    THEN NaN ELSE x

ReadPercentage(rows, x) ==
    IF x = None /\ \E i \in 1..Len(rows) : rows[i].Percentage # None
    THEN NaN ELSE x

\* pd.read_sql_query("SELECT * FROM recipes ORDER BY RecipeName, id", db)
read_sql_query(rows) ==
    LET sorted == OrderBy(rows) IN
    [i \in 1..Len(sorted) |->
        [sorted[i] EXCEPT !.Weight_g = ReadReal(rows, @),
                          !.Percentage = ReadPercentage(rows, @)]]

\* df.groupby('RecipeName'): the keys in sorted order, each with its rows in
\* the order of df.
RECURSIVE GroupKeys(_, _)
GroupKeys(df, k) ==
    IF k > Len(TitleOrder) THEN <<>>
    ELSE (IF \E i \in 1..Len(df) : df[i].RecipeName = TitleOrder[k]
          THEN <<TitleOrder[k]>> ELSE <<>>) \o GroupKeys(df, k + 1)

Group(df, name) == SelectSeq(df, LAMBDA r : r.RecipeName = name)

\* group.iloc[-1] in place of group.iloc[0].
LastRow(group) == group[Len(group)]

\* first_row = group.iloc[0]
FirstRow(group) == group[1]

Ingredient(row) ==
    [group |-> row.IngredientGroup,
     name |-> row.IngredientName,
     weight |-> row.Weight_g,
     percent |-> row.Percentage,
     desc |-> row.Description]

RecipeObj(name, group) ==
    LET first_row == FirstRow(group) IN
    [title |-> name,
     steps |-> first_row.Steps,
     timestamp |-> first_row.Timestamp,
     baking |-> [topHeat |-> first_row.UpperTemp,
                 bottomHeat |-> first_row.LowerTemp,
                 time |-> first_row.BakeTime,
                 convection |-> first_row.Convection = "shi",
                 steam |-> first_row.Steam = "shi"],
     ingredients |-> [i \in 1..Len(group) |-> Ingredient(group[i])]]

get_all_recipes_data(rows) ==
    LET df == read_sql_query(rows)
        keys == GroupKeys(df, 1)
    IN  [k \in 1..Len(keys) |-> RecipeObj(keys[k], Group(df, keys[k]))]

(***************************************************************************)
(* /get_recipes                                                            *)
(***************************************************************************)
get_recipes_route ==
    /\ request' = [route |-> "get_recipes"]
    /\ response' = Json(200, get_all_recipes_data(recipes))
    /\ UNCHANGED <<recipes, sqlite_sequence, clock>>

(***************************************************************************)
(* Float arithmetic of the conversion.  A weight is Num(tenths of a gram)  *)
(* or NaN; a ratio is an exact fraction or NaN.  NaN is truthy, compares   *)
(* false with everything and absorbs every operation.                      *)
(***************************************************************************)
RECURSIVE GCD(_, _)
GCD(a, b) == IF b = 0 THEN a ELSE GCD(b, a % b)

Abs(x) == IF x < 0 THEN 0 - x ELSE x

Frac(n, d) ==
    LET g == GCD(Abs(n), d) IN [t |-> "frac", n |-> n \div g, d |-> d \div g]

\* x or 0
Or0(x) == IF x = None \/ x = Num(0) THEN Num(0) ELSE x

\* a + b
Add(a, b) == IF a = NaN \/ b = NaN THEN NaN ELSE Num(a.v + b.v)

\* x < 0 in place of x <= 0.
LtZero(x) == x # NaN /\ x.v < 0

\* x <= 0
LeZero(x) == x # NaN /\ x.v <= 0

\* new_total_flour / original_total_flour: grams, counted in 1/Unit, over
\* grams, counted in tenths.
Div(new_total_flour, original_total_flour) ==
    IF original_total_flour = NaN THEN NaN
    ELSE Frac(new_total_flour.v, (Unit \div 10) * original_total_flour.v)

\* round(original_weight * conversion_ratio): to whole grams.
RoundProductWhole(original_weight, conversion_ratio) ==
    IF original_weight = NaN \/ conversion_ratio = NaN THEN NaN
    ELSE
        LET p == original_weight.v * conversion_ratio.n
            d == 10 * conversion_ratio.d
            q == p \div d
        IN  Num(10 * (IF 2 * (p % d) < d THEN q ELSE q + 1))

\* round(original_weight * conversion_ratio, 1): to the nearest tenth, a tie
\* to the even tenth (the doubles of the weights and ratios of this model
\* hold their ties exactly).
RoundProduct(original_weight, conversion_ratio) ==
    IF original_weight = NaN \/ conversion_ratio = NaN THEN NaN
    ELSE
        LET p == original_weight.v * conversion_ratio.n
            d == conversion_ratio.d
            q == p \div d
            r == p % d
        IN  Num(IF 2 * r < d THEN q
                ELSE IF 2 * r > d THEN q + 1
                ELSE IF q % 2 = 0 THEN q ELSE q + 1)

Truthy(x) ==
    CASE x.t = "null" -> FALSE
      [] x.t = "bool" -> x.b
      [] OTHER -> TRUE

(***************************************************************************)
(* /calculate_conversion                                                   *)
(***************************************************************************)
RECURSIVE Contains(_, _)
Contains(name, keyword) ==
    /\ Len(name) >= Len(keyword)
    /\ \/ SubSeq(name, 1, Len(keyword)) = keyword
       \/ Contains(Tail(name), keyword)

FlourKeywords == {<<"mian", "fen">>, <<"fen">>}

is_flour_ingredient(name) == \E keyword \in FlourKeywords : Contains(name.s, keyword)

PercentageGroups == {"ZhongZhong", "ZhuMianTuan", "ZhuMianTuan_s", "ZhongZhong_s"}

is_percentage_group(group) == group \in PercentageGroups

RECURSIVE OriginalTotalFlour(_)
OriginalTotalFlour(ingredients) ==
    IF ingredients = <<>> THEN Num(0)
    ELSE
        LET ing == ingredients[Len(ingredients)]
            before == OriginalTotalFlour(SubSeq(ingredients, 1, Len(ingredients) - 1))
        IN  IF is_flour_ingredient(ing.name) /\ is_percentage_group(ing.group)
            THEN Add(before, Or0(ing.weight))
            ELSE before

\* "is_percentage_group(...) and include_non_percentage_groups" in place of or.
IsScaledAnd(ing, include_non_percentage_groups) ==
    is_percentage_group(ing.group) /\ Truthy(include_non_percentage_groups)

\* if is_percentage_group(ing['group']) or include_non_percentage_groups
IsScaled(ing, include_non_percentage_groups) ==
    is_percentage_group(ing.group) \/ Truthy(include_non_percentage_groups)

ConvertIngredient(ing, conversion_ratio, include_non_percentage_groups) ==
    IF IsScaled(ing, include_non_percentage_groups)
    THEN [ing EXCEPT !.weight = RoundProduct(Or0(ing.weight), conversion_ratio)]
    ELSE ing

Convert(recipe, new_total_flour, include_non_percentage_groups) ==
    LET original_total_flour == OriginalTotalFlour(recipe.ingredients) IN
    IF LeZero(original_total_flour) THEN
        Json(400, [status |-> "error", message |-> "no flour"])
    ELSE IF original_total_flour = Num(0) THEN
        Raised("ZeroDivisionError")
    ELSE
        LET conversion_ratio == Div(new_total_flour, original_total_flour) IN
        Json(200,
             [status |-> "success",
              originalTotalFlour |-> original_total_flour,
              newTotalFlour |-> new_total_flour,
              conversionRatio |-> conversion_ratio,
              ingredients |->
                  [i \in 1..Len(recipe.ingredients) |->
                      ConvertIngredient(recipe.ingredients[i], conversion_ratio,
                                        include_non_percentage_groups)]])

Find(all_recipes, recipe_name) ==
    {i \in 1..Len(all_recipes) : all_recipes[i].title = recipe_name}

calculate_conversion_route(data) ==
    /\ request' = [route |-> "calculate_conversion", data |-> data]
    /\ UNCHANGED <<recipes, sqlite_sequence, clock>>
    /\ LET new_total_flour == float(data.newTotalFlour) IN
       IF new_total_flour.kind = "raise" THEN
           response' = new_total_flour
       ELSE IF data.recipeName = "" \/ new_total_flour.value <= 0 THEN
           response' = Json(400, [status |-> "error", message |-> "invalid"])
       ELSE
           LET all_recipes == get_all_recipes_data(recipes)
               found == Find(all_recipes, data.recipeName)
           IN  IF found = {} THEN
                   response' = Json(404, [status |-> "error", message |-> "not found"])
               ELSE
                   LET recipe == all_recipes[CHOOSE i \in found : \A j \in found : i <= j]
                   IN  response' = Convert(recipe, Num(new_total_flour.value),
                                           data.includeNonPercentageGroups)

(***************************************************************************)
(* The requests tried.                                                     *)
(***************************************************************************)
GaoJinMianFen == Str(<<"gao", "jin", "mian", "fen">>)   \* bread flour
TangFen == Str(<<"tang", "fen">>)                       \* icing sugar
Shui == Str(<<"shui">>)                                 \* water
Yan == Str(<<"yan">>)                                   \* salt

Ing(group, name, weight, percent) ==
    [group |-> group, name |-> name, weight |-> weight, percent |-> percent,
     desc |-> ""]

Flour500 == Ing("ZhuMianTuan", GaoJinMianFen, Num(5000), Str(<<"1", "0", "0", "%">>))
Flour0 == Ing("ZhongZhong", GaoJinMianFen, Num(0), None)
FlourNull == Ing("ZhuMianTuan", GaoJinMianFen, None, None)
Water350 == Ing("ZhuMianTuan", Shui, Num(3500), Num(70 * Unit))
WaterNull == Ing("ZhongZhong_s", Shui, None, Str(<<"a">>))
Salt12_5 == Ing("ZhuMianTuan_s", Yan, Num(125), Num(Unit \div 40))
Icing100 == Ing("XianLiao", TangFen, Num(1000), None)
Filling33_3 == Ing("XianLiao", Shui, Num(333), None)
NoName == Ing("ZhuMianTuan", None, Num(100), None)
ListPercent == Ing("ZhuMianTuan", Yan, Num(100), PyList)

Bake1 == [t |-> "dict", topHeat |-> 180, bottomHeat |-> 160, time |-> 30,
          convection |-> TRUE, steam |-> FALSE]
Bake2 == [t |-> "dict", topHeat |-> 200, bottomHeat |-> 190, time |-> 25,
          convection |-> FALSE, steam |-> TRUE]

SaveData(title, ingredients, steps, bakingInfo, isUpdate) ==
    [title |-> title, ingredients |-> ingredients, steps |-> steps,
     bakingInfo |-> bakingInfo, isUpdate |-> isUpdate]

StoreSaves ==
    {SaveData(title, meta[1], meta[2], meta[3], isUpdate) :
        title \in {"A", "B"},
        meta \in {<<<<Flour500, Water350>>, "s1", Bake1>>,
                  <<<<Flour500>>, "s2", Bake2>>},
        isUpdate \in BOOLEAN}
    \cup {SaveData("A", ingredients, "s2", Bake2, isUpdate) :
            ingredients \in {<<Flour500, NoName>>, <<Flour500, ListPercent>>},
            isUpdate \in BOOLEAN}
    \cup {SaveData("B", <<Flour500>>, "s1", None, TRUE),
          SaveData("", <<Flour500>>, "s1", Bake1, FALSE),
          SaveData("A", <<>>, "s1", Bake1, TRUE)}

ConvIngredients ==
    {<<Flour500, Water350>>,
     <<Flour500, Salt12_5, Icing100>>,
     <<Flour500, WaterNull, Filling33_3>>,
     <<FlourNull, Water350>>,
     <<FlourNull>>,
     <<Flour0, Water350>>,
     <<Icing100, Water350>>}

ConvSaves ==
    {SaveData("A", ingredients, "s1", Bake1, TRUE) : ingredients \in ConvIngredients}
    \cup {SaveData("B", <<Flour500, Water350>>, "s2", Bake2, FALSE)}

ConvData(recipeName, newTotalFlour, includeNonPercentageGroups) ==
    [recipeName |-> recipeName, newTotalFlour |-> newTotalFlour,
     includeNonPercentageGroups |-> includeNonPercentageGroups]

Conversions ==
    {ConvData(recipeName, Num(grams * Unit), Bool(flag)) :
        recipeName \in {"A", "B"}, grams \in {600, 500, 250}, flag \in BOOLEAN}
    \cup {ConvData("A", newTotalFlour, Bool(FALSE)) :
            newTotalFlour \in {Num(0), Num(0 - Unit), Str(<<"a">>), Str(<<>>), None}}
    \cup {ConvData("A", Str(<<"5", "0", "0">>), None),
          ConvData("", Num(600 * Unit), Bool(TRUE))}

Alphabet == {"0", "1", "5", ".", "%", " ", "-", "a"}

Strings == UNION {[1..n -> Alphabet] : n \in 0..MaxStrLen}

Percents ==
    {None, PyList, PyDict, Bool(TRUE), Num(0), Num(Unit \div 2), Num(Unit),
     Num(Unit + Unit \div 2), Num(50 * Unit), Num(0 - 5 * Unit)}
    \cup {Str(s) : s \in Strings}

(***************************************************************************)
(* The specifications.                                                     *)
(***************************************************************************)
Init ==
    /\ recipes = <<>>
    /\ sqlite_sequence = 0
    /\ clock = 0
    /\ request = [route |-> ""]
    /\ response = [kind |-> ""]

SaveRecipe == \E data \in StoreSaves : save_recipe_route(data)

DeleteRecipe == \E recipeName \in {"", "A", "B"} :
    delete_recipe_route([recipeName |-> recipeName])

GetRecipes == get_recipes_route

\* The recipe store: its life cycle and its read path.
Next == SaveRecipe \/ DeleteRecipe \/ GetRecipes

Spec == Init /\ [][Next]_vars

SaveForConversion == \E data \in ConvSaves : save_recipe_route(data)

CalculateConversion == \E data \in Conversions : calculate_conversion_route(data)

\* Recipes saved, then converted.
NextConv == SaveForConversion \/ CalculateConversion

SpecConv == Init /\ [][NextConv]_vars

\* normalize_percent_value, called on its own: any argument, then the call.
InitNorm ==
    /\ recipes = <<>>
    /\ sqlite_sequence = 0
    /\ clock = 0
    /\ \E p \in Percents : request = [route |-> "normalize_percent_value", data |-> p]
    /\ response = [kind |-> ""]

NormalizePercent ==
    /\ response.kind = ""
    /\ response' = normalize_percent_value(request.data)
    /\ UNCHANGED <<recipes, sqlite_sequence, clock, request>>

NextNorm == NormalizePercent

SpecNorm == InitNorm /\ [][NextNorm]_vars

(***************************************************************************)
(* Claims.  What a claim says of a request is read off the request, the    *)
(* table and the response.                                                 *)
(***************************************************************************)
IsConversion == request.route = "calculate_conversion"
IsSuccess == response.kind = "return" /\ response.code = 200

\* The rows of a title, as indices into the table (ascending id).
RowsOf(title) == {i \in 1..Len(recipes) : recipes[i].RecipeName = title}

\* The k-th row of a title in id order.
KthRowOf(title, k) ==
    recipes[CHOOSE i \in RowsOf(title) :
                Cardinality({j \in RowsOf(title) : j < i}) = k - 1]

InBasis(row) == row.IngredientGroup \in PercentageGroups
FlourNamed(row) ==
    \E k \in 1..Len(row.IngredientName.s) : row.IngredientName.s[k] = "fen"

BasisFlourRows(title) ==
    {i \in RowsOf(title) : FlourNamed(recipes[i]) /\ InBasis(recipes[i])}

\* The weight of a row as the read path delivers it: a number, None, or NaN.
Delivered(i) == ReadReal(recipes, recipes[i].Weight_g)

\* The rows of S weigh a number in sum: none of them reads NaN.  A weight
\* that reads None counts 0.
Weighed(S) == \A i \in S : Delivered(i) # NaN

RECURSIVE SumWeights(_)
SumWeights(S) ==
    IF S = {} THEN 0
    ELSE LET i == CHOOSE j \in S : TRUE
         IN  (IF Delivered(i) = None THEN 0 ELSE Delivered(i).v)
               + SumWeights(S \ {i})

\* Whether the target of the request denotes a number, and that number (in
\* 1/Unit).
TargetIsNumber ==
    LET x == request.data.newTotalFlour IN
    \/ x.t = "num"
    \/ x.t = "str" /\ x.s # <<>> /\ \A k \in 1..Len(x.s) : x.s[k] \in Digits

TargetNumber ==
    LET x == request.data.newTotalFlour IN
    IF x.t = "num" THEN x.v ELSE IntValue(x.s) * Unit

\* A conversion with a positive target of a recipe whose basis flour weighs
\* more than nothing.
PositiveConversion ==
    /\ IsConversion
    /\ TargetIsNumber
    /\ TargetNumber > 0
    /\ BasisFlourRows(request.data.recipeName) # {}
    /\ Weighed(BasisFlourRows(request.data.recipeName))
    /\ SumWeights(BasisFlourRows(request.data.recipeName)) > 0

\* e is w * ratio to the nearest tenth (a tie either way).
IsRounded(e, w, ratio) == 2 * Abs(e * ratio.d - w * ratio.n) <= ratio.d

\* C1: a successful conversion returns the recipe's ingredients in their
\* order, each with its weight scaled by ratio = target / basis flour and
\* rounded to a tenth if its group is a basis group or the
\* include-outside-basis flag is true, and with its weight as stored otherwise.
C1_ScalingRule ==
    PositiveConversion =>
        LET title == request.data.recipeName
            flag == request.data.includeNonPercentageGroups = Bool(TRUE)
            flour == SumWeights(BasisFlourRows(title))
            out == response.body.ingredients
            ratio == response.body.conversionRatio
        IN  /\ IsSuccess
            /\ ratio.n * ((Unit \div 10) * flour) = ratio.d * TargetNumber
            /\ Len(out) = Cardinality(RowsOf(title))
            /\ \A k \in 1..Len(out) :
                  LET row == KthRowOf(title, k) IN
                  /\ out[k].name = row.IngredientName
                  /\ out[k].group = row.IngredientGroup
                  /\ IF InBasis(row) \/ flag THEN
                         IF row.Weight_g = None THEN out[k].weight = NaN
                         ELSE /\ out[k].weight.t = "num"
                              /\ IsRounded(out[k].weight.v, row.Weight_g.v, ratio)
                     ELSE out[k].weight = ReadReal(recipes, row.Weight_g)

\* C1's case: a recipe with an ingredient outside the basis groups, converted
\* by a ratio other than 1 with the flag off.
C1_Witness ==
    /\ PositiveConversion
    /\ IsSuccess
    /\ request.data.includeNonPercentageGroups = Bool(FALSE)
    /\ response.body.conversionRatio # Frac(1, 1)
    /\ \E k \in 1..Len(response.body.ingredients) :
          LET row == KthRowOf(request.data.recipeName, k) IN
          /\ ~InBasis(row)
          /\ row.Weight_g # None
          /\ response.body.ingredients[k].weight = row.Weight_g
    /\ \E k \in 1..Len(response.body.ingredients) :
          LET row == KthRowOf(request.data.recipeName, k) IN
          /\ InBasis(row)
          /\ row.Weight_g # None
          /\ response.body.ingredients[k].weight # row.Weight_g

\* A conversion request that names a stored recipe and a positive target.
ReachesRecipe ==
    /\ IsConversion
    /\ TargetIsNumber
    /\ TargetNumber > 0
    /\ RowsOf(request.data.recipeName) # {}

IsErrorValue ==
    /\ response.kind = "return"
    /\ response.code \in {400, 404}
    /\ response.body.status = "error"
    /\ "ingredients" \notin DOMAIN response.body

C3_InvalidTargetIsErrorValue ==
    (IsConversion /\ ~(TargetIsNumber /\ TargetNumber > 0)) => IsErrorValue

\* C5: in a successful conversion a weight that is NULL in storage counts as
\* 0: the basis flour mass, the ratio and every weight returned are numbers,
\* and a scaled ingredient without a stored weight weighs 0.
C5_MissingWeightIsZero ==
    (IsConversion /\ IsSuccess) =>
        LET title == request.data.recipeName
            flag == request.data.includeNonPercentageGroups = Bool(TRUE)
            out == response.body.ingredients
        IN  /\ response.body.originalTotalFlour # NaN
            /\ response.body.conversionRatio # NaN
            /\ \A k \in 1..Len(out) :
                  LET row == KthRowOf(title, k) IN
                  /\ (InBasis(row) \/ flag) => out[k].weight # NaN
                  /\ (row.Weight_g = None /\ (InBasis(row) \/ flag))
                        => out[k].weight = Num(0)

\* C8: converting a recipe to the mass of its own basis flour gives ratio 1
\* and returns every ingredient with the weight it had (the weights of the
\* model have one decimal place), whatever the flag.
C8_OwnMassIsIdentity ==
    ( /\ PositiveConversion
      /\ TargetNumber * 10
           = SumWeights(BasisFlourRows(request.data.recipeName)) * Unit )
    => /\ IsSuccess
       /\ response.body.conversionRatio = Frac(1, 1)
       /\ \A k \in 1..Len(response.body.ingredients) :
             response.body.ingredients[k].weight
               = ReadReal(recipes, KthRowOf(request.data.recipeName, k).Weight_g)

\* C8's case: a recipe with 12.5 g of salt and icing sugar outside the basis
\* groups, converted to its own 500 g of flour with the flag on.
C8_Witness ==
    /\ PositiveConversion
    /\ TargetNumber * 10
         = SumWeights(BasisFlourRows(request.data.recipeName)) * Unit
    /\ IsSuccess
    /\ request.data.includeNonPercentageGroups = Bool(TRUE)
    /\ \E k \in 1..Len(response.body.ingredients) :
          /\ ~InBasis(KthRowOf(request.data.recipeName, k))
          /\ response.body.ingredients[k].weight = Salt12_5.weight
                \/ response.body.ingredients[k].weight = Icing100.weight
    /\ \E k \in 1..Len(response.body.ingredients) :
          response.body.ingredients[k].weight = Salt12_5.weight

Normalized == request.route = "normalize_percent_value" /\ response.kind # ""

\* C4: normalize_percent_value never raises: whatever its argument (a list
\* or an object too), it returns a fraction or null.
C4_NormalizeNeverRaises ==
    Normalized => response.kind = "return"

\* What the claim has a number n (in 1/Unit) become.
Scaled(n) == IF n > Unit THEN n \div 100 ELSE n

\* C9: null and the empty string give null; a string ending in the percent
\* marker gives its numeric part over 100; any other number or numeric string
\* n gives n / 100 when n > 1 and n when n <= 1; so "50%", 50 and 0.5 all give
\* 0.5, and 1 stays 1.
C9_NormalizeMapping ==
    Normalized =>
        LET p == request.data IN
        /\ (p = None \/ p = Str(<<>>)) => response = Returned(None)
        /\ (p.t = "str" /\ endswith(p.s, "%")) =>
              LET part == float_str(strip(SubSeq(p.s, 1, Len(p.s) - 1))) IN
              part.kind = "return" => response = Returned(Num(part.value \div 100))
        /\ (p.t = "str" /\ ~endswith(p.s, "%") /\ float_str(p.s).kind = "return") =>
              response = Returned(Num(Scaled(float_str(p.s).value)))
        /\ p.t = "num" => response = Returned(Num(Scaled(p.v)))
        /\ p \in {Str(<<"5", "0", "%">>), Num(50 * Unit), Num(Unit \div 2),
                   Str(<<"0", ".", "5">>)}
              => response = Returned(Num(Unit \div 2))
        /\ p \in {Num(Unit), Str(<<"1">>)} => response = Returned(Num(Unit))

\* C9's case: "50%" has become 0.5.
C9_Witness ==
    /\ Normalized
    /\ request.data = Str(<<"5", "0", "%">>)
    /\ response = Returned(Num(Unit \div 2))

SameRecipeFields(r, q) ==
    /\ r.Steps = q.Steps
    /\ r.Timestamp = q.Timestamp
    /\ r.UpperTemp = q.UpperTemp
    /\ r.LowerTemp = q.LowerTemp
    /\ r.BakeTime = q.BakeTime
    /\ r.Convection = q.Convection
    /\ r.Steam = q.Steam

\* C6: whatever was saved and deleted, the stored rows of one title have the
\* same steps, timestamp and baking fields: they come from a single save.
C6_RowsOfTitleAgree ==
    \A i, j \in 1..Len(recipes) :
        recipes[i].RecipeName = recipes[j].RecipeName
            => SameRecipeFields(recipes[i], recipes[j])

IsListing == request.route = "get_recipes" /\ response.kind = "return"

Titles == {recipes[i].RecipeName : i \in 1..Len(recipes)}

\* C7: get_all_recipes_data returns one recipe per stored title, in ascending
\* title order; its ingredients are the rows of the title in ascending id
\* order, and its steps, timestamp and baking fields are those of the row of
\* the title with the lowest id.
C7_ListingShape ==
    IsListing =>
        LET out == response.body IN
        /\ {out[k].title : k \in 1..Len(out)} = Titles
        /\ \A k \in 1..Len(out) - 1 :
              TitleRank(out[k].title) < TitleRank(out[k + 1].title)
        /\ \A k \in 1..Len(out) :
              LET title == out[k].title
                  first == KthRowOf(title, 1)
              IN  /\ Len(out[k].ingredients) = Cardinality(RowsOf(title))
                  /\ \A n \in 1..Len(out[k].ingredients) :
                        LET row == KthRowOf(title, n)
                            ing == out[k].ingredients[n]
                        IN  /\ ing.name = row.IngredientName
                            /\ ing.group = row.IngredientGroup
                            /\ ing.desc = row.Description
                            /\ row.Weight_g # None => ing.weight = row.Weight_g
                            /\ row.Percentage # None => ing.percent = row.Percentage
                  /\ \A i \in RowsOf(title) : first.id <= recipes[i].id
                  /\ out[k].steps = first.Steps
                  /\ out[k].timestamp = first.Timestamp
                  /\ out[k].baking =
                        [topHeat |-> first.UpperTemp,
                         bottomHeat |-> first.LowerTemp,
                         time |-> first.BakeTime,
                         convection |-> first.Convection = "shi",
                         steam |-> first.Steam = "shi"]

\* C7's case: the rows of a title lie on both sides of a row of another
\* title, its later rows differ from its first row in steps and baking
\* fields, and the listing was returned.
C7_Witness ==
    /\ IsListing
    /\ Len(response.body) = 2
    /\ \E i, j, k \in 1..Len(recipes) :
          /\ i < j /\ j < k
          /\ recipes[i].RecipeName = recipes[k].RecipeName
          /\ recipes[i].RecipeName # recipes[j].RecipeName
          /\ recipes[i].Steps # recipes[k].Steps
          /\ recipes[i].UpperTemp # recipes[k].UpperTemp

IsSave == request.route = "save_recipe"

OtherRows(rows, title) == SelectSeq(rows, LAMBDA r : r.RecipeName # title)

\* C10: a save that fails after validation leaves the table as it was before
\* the call, and no save, failed or not, changes the rows of another title.
C10_SaveAllOrNothing ==
    [][ (request'.route = "save_recipe" /\ response'.kind = "return") =>
          /\ response'.code # 200 => recipes' = recipes
          /\ OtherRows(recipes', request'.data.title)
               = OtherRows(recipes, request'.data.title) ]_vars

\* C10's case: an updating save of a stored title failed at its second
\* ingredient, after the old rows were deleted and the first was inserted.
C10_Witness ==
    /\ IsSave
    /\ response.kind = "return"
    /\ response.code = 500
    /\ request.data.isUpdate
    /\ Len(request.data.ingredients) = 2
    /\ RowsOf(request.data.title) # {}
    /\ \E i \in 1..Len(recipes) : recipes[i].RecipeName # request.data.title

====
